---- MODULE Spec2Model ----
(***************************************************************************)
(* Model of the safety envelope layer of ghost-void                        *)
(* (safety::SafetyLayer::clip and its data model) together with the        *)
(* caller that builds the bounds and the action, calls clip and clips the  *)
(* clamped action again.                                                   *)
(***************************************************************************)
EXTENDS Integers, Sequences, FiniteSets, TLC

\* Largest number of dimensions a caller gives to the bounds or the action.
MaxDim == 2
\* Finite doubles are the integers -MaxVal..MaxVal.
MaxVal == 1

(***************************************************************************)
(* IEEE-754 doubles: finite values, the two infinities and NaN.            *)
(***************************************************************************)
NaN == [cls |-> "nan", n |-> 0]
PosInf == [cls |-> "inf", n |-> 1]
NegInf == [cls |-> "inf", n |-> -1]
Fin(n) == [cls |-> "fin", n |-> n]
Zero == Fin(0)
Doubles == {NaN, PosInf, NegInf} \cup {Fin(n) : n \in (0 - MaxVal)..MaxVal}

\* std::isfinite
isfinite(v) == v.cls = "fin"

\* operator> on doubles: false as soon as one operand is NaN.
Gt(a, b) ==
    /\ a.cls # "nan"
    /\ b.cls # "nan"
    /\ CASE a.cls = "inf" /\ a.n = 1 -> ~(b.cls = "inf" /\ b.n = 1)
         [] a.cls = "inf" /\ a.n = -1 -> FALSE
         [] b.cls = "inf" /\ b.n = 1 -> FALSE
         [] b.cls = "inf" /\ b.n = -1 -> TRUE
         [] OTHER -> a.n > b.n

\* operator< on doubles
Lt(a, b) == Gt(b, a)

\* operator<= on doubles: false as soon as one operand is NaN.
Le(a, b) == a.cls # "nan" /\ b.cls # "nan" /\ ~Gt(a, b)

(***************************************************************************)
(* Data model (SafetyLayer.hpp).                                           *)
(***************************************************************************)
ViolationType == {"None", "SoftLimit", "HardLimit", "InvariantBreach"}

\* SafetyBounds(double lh, double uh, double ls, double us): stores the four
\* values as given, in any order and of any class.
SafetyBounds(lh, uh, ls, us) ==
    [lower_hard |-> lh, upper_hard |-> uh, lower_soft |-> ls, upper_soft |-> us]

\* SafetyBounds(): unbounded.
DefaultSafetyBounds == SafetyBounds(NegInf, PosInf, NegInf, PosInf)

ClipStats(violation, original, clipped, modified, message) ==
    [violation |-> violation, original_value |-> original,
     clipped_value |-> clipped, was_modified |-> modified, message |-> message]

ClipResult(clamped, stats, safe) ==
    [clamped_action |-> clamped, stats |-> stats, is_safe |-> safe]

\* A double that was declared and never assigned holds any value: zero, a
\* finite value that is not zero, or a value that is not finite.
Indeterminate == {Zero, Fin(1), NaN}

(***************************************************************************)
(* SafetyLayer::clip.                                                      *)
(***************************************************************************)
\* ClipDimension with the finiteness test replaced by a NaN test: an infinite
\* value goes on to the hard-limit comparisons.
ClipDimension_NaNTestOnly(val, bound) ==
    IF val.cls = "nan"
    THEN ClipStats("InvariantBreach", val, Zero, TRUE, "Non-finite value")
    ELSE IF Gt(val, bound.upper_hard)
    THEN ClipStats("HardLimit", val, bound.upper_hard, TRUE,
                   "Exceeded Upper Hard Limit")
    ELSE IF Lt(val, bound.lower_hard)
    THEN ClipStats("HardLimit", val, bound.lower_hard, TRUE,
                   "Exceeded Lower Hard Limit")
    ELSE IF Gt(val, bound.upper_soft)
    THEN ClipStats("SoftLimit", val, val, FALSE, "Exceeded Upper Soft Limit")
    ELSE IF Lt(val, bound.lower_soft)
    THEN ClipStats("SoftLimit", val, val, FALSE, "Exceeded Lower Soft Limit")
    ELSE ClipStats("None", val, val, FALSE, "")

\* ClipDimension with the soft limits clamping like the hard ones.
ClipDimension_SoftClamps(val, bound) ==
    IF ~isfinite(val)
    THEN ClipStats("InvariantBreach", val, Zero, TRUE, "Non-finite value")
    ELSE IF Gt(val, bound.upper_hard)
    THEN ClipStats("HardLimit", val, bound.upper_hard, TRUE,
                   "Exceeded Upper Hard Limit")
    ELSE IF Lt(val, bound.lower_hard)
    THEN ClipStats("HardLimit", val, bound.lower_hard, TRUE,
                   "Exceeded Lower Hard Limit")
    ELSE IF Gt(val, bound.upper_soft)
    THEN ClipStats("SoftLimit", val, bound.upper_soft, FALSE,
                   "Exceeded Upper Soft Limit")
    ELSE IF Lt(val, bound.lower_soft)
    THEN ClipStats("SoftLimit", val, bound.lower_soft, FALSE,
                   "Exceeded Lower Soft Limit")
    ELSE ClipStats("None", val, val, FALSE, "")

\* ClipDimension with >= and <= in the hard-limit comparisons: a value equal
\* to a hard bound is flagged.
ClipDimension_Inclusive(val, bound) ==
    IF ~isfinite(val)
    THEN ClipStats("InvariantBreach", val, Zero, TRUE, "Non-finite value")
    ELSE IF Gt(val, bound.upper_hard) \/ val = bound.upper_hard
    THEN ClipStats("HardLimit", val, bound.upper_hard, TRUE,
                   "Exceeded Upper Hard Limit")
    ELSE IF Lt(val, bound.lower_hard) \/ val = bound.lower_hard
    THEN ClipStats("HardLimit", val, bound.lower_hard, TRUE,
                   "Exceeded Lower Hard Limit")
    ELSE IF Gt(val, bound.upper_soft)
    THEN ClipStats("SoftLimit", val, val, FALSE, "Exceeded Upper Soft Limit")
    ELSE IF Lt(val, bound.lower_soft)
    THEN ClipStats("SoftLimit", val, val, FALSE, "Exceeded Lower Soft Limit")
    ELSE ClipStats("None", val, val, FALSE, "")

\* ClipDimension whose lower hard-limit branch leaves was_modified false.
ClipDimension_LowerNotMarked(val, bound) ==
    IF ~isfinite(val)
    THEN ClipStats("InvariantBreach", val, Zero, TRUE, "Non-finite value")
    ELSE IF Gt(val, bound.upper_hard)
    THEN ClipStats("HardLimit", val, bound.upper_hard, TRUE,
                   "Exceeded Upper Hard Limit")
    ELSE IF Lt(val, bound.lower_hard)
    THEN ClipStats("HardLimit", val, bound.lower_hard, FALSE,
                   "Exceeded Lower Hard Limit")
    ELSE IF Gt(val, bound.upper_soft)
    THEN ClipStats("SoftLimit", val, val, FALSE, "Exceeded Upper Soft Limit")
    ELSE IF Lt(val, bound.lower_soft)
    THEN ClipStats("SoftLimit", val, val, FALSE, "Exceeded Lower Soft Limit")
    ELSE ClipStats("None", val, val, FALSE, "")

\* The body of the loop for one dimension: the record pushed to stats.
ClipDimension(val, bound) ==
    IF ~isfinite(val)
    THEN ClipStats("InvariantBreach", val, Zero, TRUE, "Non-finite value")
    ELSE IF Gt(val, bound.upper_hard)
    THEN ClipStats("HardLimit", val, bound.upper_hard, TRUE,
                   "Exceeded Upper Hard Limit")
    ELSE IF Lt(val, bound.lower_hard)
    THEN ClipStats("HardLimit", val, bound.lower_hard, TRUE,
                   "Exceeded Lower Hard Limit")
    ELSE IF Gt(val, bound.upper_soft)
    THEN ClipStats("SoftLimit", val, val, FALSE, "Exceeded Upper Soft Limit")
    ELSE IF Lt(val, bound.lower_soft)
    THEN ClipStats("SoftLimit", val, val, FALSE, "Exceeded Lower Soft Limit")
    ELSE ClipStats("None", val, val, FALSE, "")

\* ClipMismatch without the resize: the clamped action stays empty.
ClipMismatch_NoResize(bounds_) ==
    { ClipResult(<<>>,
                 <<ClipStats("InvariantBreach", g1, g2, TRUE,
                             "Dimension mismatch between action and bounds")>>,
                 FALSE) : g1 \in Indeterminate, g2 \in Indeterminate }

\* The dimension-mismatch branch: a zero vector as long as the bounds and one
\* record whose original_value and clipped_value are never assigned.
ClipMismatch(bounds_) ==
    { ClipResult([i \in 1..Len(bounds_) |-> Zero],
                 <<ClipStats("InvariantBreach", g1, g2, TRUE,
                             "Dimension mismatch between action and bounds")>>,
                 FALSE) : g1 \in Indeterminate, g2 \in Indeterminate }

\* ClipMatch that never clears is_safe.
ClipMatch_SafeNeverCleared(proposed_, bounds_) ==
    LET stats == [i \in 1..Len(proposed_) |-> ClipDimension(proposed_[i], bounds_[i])]
    IN  ClipResult([i \in 1..Len(proposed_) |-> stats[i].clipped_value],
                   stats, TRUE)

\* ClipMatch that inserts each record at the front of stats.
ClipMatch_StatsReversed(proposed_, bounds_) ==
    LET stats == [i \in 1..Len(proposed_) |-> ClipDimension(proposed_[i], bounds_[i])]
    IN  ClipResult([i \in 1..Len(proposed_) |-> stats[i].clipped_value],
                   [i \in 1..Len(proposed_) |-> stats[Len(proposed_) + 1 - i]],
                   \A i \in 1..Len(proposed_) : isfinite(proposed_[i]))

\* ClipMatch that also clears is_safe when a value is clamped to a hard bound.
ClipMatch_HardLimitUnsafe(proposed_, bounds_) ==
    LET stats == [i \in 1..Len(proposed_) |-> ClipDimension(proposed_[i], bounds_[i])]
    IN  ClipResult([i \in 1..Len(proposed_) |-> stats[i].clipped_value],
                   stats,
                   \A i \in 1..Len(proposed_) :
                       stats[i].violation \notin {"InvariantBreach", "HardLimit"})

\* ClipMatch that neutralizes the whole action as soon as one value is not
\* finite.
ClipMatch_BreachZeroesAll(proposed_, bounds_) ==
    LET stats == [i \in 1..Len(proposed_) |-> ClipDimension(proposed_[i], bounds_[i])]
        safe == \A i \in 1..Len(proposed_) : isfinite(proposed_[i])
    IN  ClipResult([i \in 1..Len(proposed_) |->
                        IF safe THEN stats[i].clipped_value ELSE Zero],
                   stats, safe)

\* The per-dimension loop: is_safe starts true and is cleared by every
\* non-finite value; clamped_action[i] is the record's clipped_value.
ClipMatch(proposed_, bounds_) ==
    LET stats == [i \in 1..Len(proposed_) |-> ClipDimension(proposed_[i], bounds_[i])]
    IN  ClipResult([i \in 1..Len(proposed_) |-> stats[i].clipped_value],
                   stats,
                   \A i \in 1..Len(proposed_) : isfinite(proposed_[i]))

\* clip whose mismatch branch sizes the zero vector by the action, not by the
\* bounds.
clip_ResizeToProposed(proposed_, context_, bounds_) ==
    IF Len(proposed_) # Len(bounds_)
    THEN { ClipResult([i \in 1..Len(proposed_) |-> Zero], r.stats, r.is_safe) :
              r \in ClipMismatch(bounds_) }
    ELSE {ClipMatch(proposed_, bounds_)}

\* clip(proposed, context, bounds): the set of results the call can return.
clip(proposed_, context_, bounds_) ==
    IF Len(proposed_) # Len(bounds_)
    THEN ClipMismatch(bounds_)
    ELSE {ClipMatch(proposed_, bounds_)}

(***************************************************************************)
(* The caller.                                                             *)
(***************************************************************************)
VARIABLES
    bounds,     \* std::vector<SafetyBounds> the caller holds
    proposed,   \* Action::values of the proposed action
    context,    \* State::values of the context
    results,    \* results of the calls made on these inputs: results[1] is
                \* clip(proposed), results[2] is clip(results[1].clamped_action)
    repeat,     \* result of a second call clip(proposed, context, bounds)
    callers,    \* concurrent callers of clip: where each one is in its call
    frames,     \* the local variable result of each activation of clip
    currentLevel_,  \* WorldModel::currentLevel_
    tiles_,         \* WorldModel::tiles_
    spawnPoint_,    \* WorldModel::spawnPoint_
    loaded,     \* LoadLevel has been called on the world
    planes,     \* number of SpawnPlane calls since the last LoadLevel
    worldCall,  \* the last call made on the world, with its arguments
    cleared,    \* number of tiles the last tiles_.clear() removed
    boss,       \* a Boss: position_, health_
    bigBoss,    \* a BigBoss: position_, health_, rageTimer_
    bossCall,   \* the last Update made on a boss, with its arguments
    currentStateHash_,  \* QubeRuntime::currentStateHash_
    isInitialized_,     \* QubeRuntime::isInitialized_
    operationsCount_,   \* QubeRuntime::operationsCount_
    auditLog_,          \* QubeRuntime::auditLog_
    qubeCall,   \* the last call made on the runtime, with what it returned
    active_,        \* BattleSystem::active_
    playerMonster_, \* BattleSystem::playerMonster_
    enemyMonster_,  \* BattleSystem::enemyMonster_
    battleLog_,     \* BattleSystem::battleLog_
    turnTimer_,     \* BattleSystem::turnTimer_
    playerTurn_,    \* BattleSystem::playerTurn_
    battleCall,   \* the last call made on the battle system
    sinceAttack,  \* Update time accumulated since the last Attack that took
                  \* effect
    grid_,      \* CitySimulation::grid_
    timer_,     \* CitySimulation::timer_
    cityCall    \* the last call made on the city, with its arguments

clipVars == <<bounds, proposed, context, results>>
detVars == <<repeat>>
concVars == <<callers, frames>>
worldVars == <<currentLevel_, tiles_, spawnPoint_, loaded, planes, worldCall, cleared>>
agentVars == <<boss, bigBoss, bossCall>>
qubeVars ==
    <<currentStateHash_, isInitialized_, operationsCount_, auditLog_, qubeCall>>
battleVars ==
    <<active_, playerMonster_, enemyMonster_, battleLog_, turnTimer_, playerTurn_,
      battleCall, sinceAttack>>
cityVars == <<grid_, timer_, cityCall>>

\* The game engine's objects.
engineVars == <<worldVars, agentVars, qubeVars, battleVars, cityVars>>

vars == <<clipVars, detVars, concVars, engineVars>>

\* What the sequential caller of clip never touches.
beyondCaller == <<detVars, concVars, engineVars>>

\* Sequences of length at most n over S.
SeqUpTo(S, n) == UNION {[1..k -> S] : k \in 0..n}

\* Constructor arguments the caller uses.
BoundsArgs ==
    { <<Fin(-1), Fin(1), Zero, Zero>>,        \* soft band inside the hard band
      <<Zero, Zero, Zero, Zero>>,             \* hard band reduced to zero
      <<Fin(1), Fin(1), Fin(1), Fin(1)>>,     \* ordered, zero outside
      <<Fin(1), Fin(-1), Zero, Zero>>,        \* lower_hard above upper_hard
      <<NaN, NaN, Zero, Zero>> }              \* NaN hard bounds

Contexts == {<<>>, <<Zero>>}

\* The callers that call clip concurrently.
Callers == {"c1", "c2"}

\* A caller that has not called yet.
IdleCaller == [pc |-> "idle", act |-> <<>>, i |-> 0, ret |-> <<>>]

\* ClipResult result; result.is_safe = true;
FreshResult == ClipResult(<<>>, <<>>, TRUE)

\* Vector2
Vector2(x, y) == [x |-> x, y |-> y]

\* The caller of clip before any call.
CallerInit ==
    /\ bounds = <<>>
    /\ proposed = <<>>
    /\ context = <<>>
    /\ results = <<>>
    /\ repeat = <<>>

\* No concurrent call has begun.
ConcInit ==
    /\ callers = [c \in Callers |-> IdleCaller]
    /\ frames = [c \in Callers |-> FreshResult]

\* No call has been made on the object yet.
NoCall == [op |-> "none"]

\* WorldModel::WorldModel() and the default member initializers.
WorldInit ==
    /\ currentLevel_ = 0
    /\ tiles_ = <<>>
    /\ spawnPoint_ = Vector2(0, 0)
    /\ loaded = FALSE
    /\ planes = 0
    /\ worldCall = NoCall
    /\ cleared = 0

\* float quantities (seconds, coordinates) are counted in quarters: every
\* value the callers below use is a multiple of 0.25, which float holds and
\* adds exactly.
Unit == 4

\* Boss::Boss({0, 0}) and BigBoss::BigBoss({0, 0})
AgentInit ==
    /\ boss = [position_ |-> Vector2(0, 0), health_ |-> 100]
    /\ bigBoss = [position_ |-> Vector2(0, 0), health_ |-> 500, rageTimer_ |-> 0]
    /\ bossCall = NoCall

\* QubeRuntime::QubeRuntime()
QubeInit ==
    /\ currentStateHash_ = "GENESIS_HASH"
    /\ isInitialized_ = FALSE
    /\ operationsCount_ = 0
    /\ auditLog_ = <<>>
    /\ qubeCall = NoCall

\* struct Monster
Monster(name, type, hp, maxHp, attack) ==
    [name |-> name, type |-> type, hp |-> hp, maxHp |-> maxHp, attack |-> attack]

\* A default-initialized Monster: the name is the empty string, the other
\* members are unassigned and have no value here; nothing reads them before
\* StartBattle assigns the monsters.
DefaultMonster == [name |-> ""]

\* BattleSystem::BattleSystem()
BattleInit ==
    /\ active_ = FALSE
    /\ turnTimer_ = 0
    /\ playerTurn_ = TRUE
    /\ playerMonster_ = DefaultMonster
    /\ enemyMonster_ = DefaultMonster
    /\ battleLog_ = ""
    /\ battleCall = NoCall
    /\ sinceAttack = 0

\* Size of the city grid.
CityWidth == 7
CityHeight == 1

\* struct CityCell
CityCell(type, density, hasPower, hasWater) ==
    [type |-> type, density |-> density, hasPower |-> hasPower, hasWater |-> hasWater]

EmptyCell == CityCell("Empty", 0, FALSE, FALSE)

\* CitySimulation::CitySimulation(width, height)
CityInit ==
    /\ grid_ = [k \in 0..(CityWidth * CityHeight - 1) |-> EmptyCell]
    /\ timer_ = 0
    /\ cityCall = NoCall

Init ==
    /\ CallerInit
    /\ ConcInit
    /\ WorldInit
    /\ AgentInit
    /\ QubeInit
    /\ BattleInit
    /\ CityInit

\* bounds.push_back(SafetyBounds(lh, uh, ls, us)), before the call
PushBounds ==
    /\ results = <<>>
    /\ Len(bounds) < MaxDim
    /\ \E a \in BoundsArgs :
          bounds' = Append(bounds, SafetyBounds(a[1], a[2], a[3], a[4]))
    /\ UNCHANGED <<proposed, context, results>>
    /\ UNCHANGED beyondCaller

\* bounds.push_back(SafetyBounds()), before the call
PushDefaultBounds ==
    /\ results = <<>>
    /\ Len(bounds) < MaxDim
    /\ bounds' = Append(bounds, DefaultSafetyBounds)
    /\ UNCHANGED <<proposed, context, results>>
    /\ UNCHANGED beyondCaller

\* act.values gets one more value, before the call
PushValue ==
    /\ results = <<>>
    /\ Len(proposed) < MaxDim
    /\ \E v \in Doubles : proposed' = Append(proposed, v)
    /\ UNCHANGED <<bounds, context, results>>
    /\ UNCHANGED beyondCaller

\* context.values = {...}, before the call
SetContext ==
    /\ results = <<>>
    /\ \E vals \in Contexts \ {context} : context' = vals
    /\ UNCHANGED <<bounds, proposed, results>>
    /\ UNCHANGED beyondCaller

\* Clip that clamps the caller's action in place.
Clip_InPlace ==
    /\ results = <<>>
    /\ \E r \in clip(proposed, context, bounds) :
          /\ results' = <<r>>
          /\ proposed' = r.clamped_action
    /\ UNCHANGED <<bounds, context>>
    /\ UNCHANGED beyondCaller

\* auto res = SafetyLayer::clip(act, context, bounds)
Clip ==
    /\ results = <<>>
    /\ \E r \in clip(proposed, context, bounds) : results' = <<r>>
    /\ UNCHANGED <<bounds, proposed, context>>
    /\ UNCHANGED beyondCaller

\* auto res2 = SafetyLayer::clip(res.clamped_action, context, bounds)
ClipAgain ==
    /\ Len(results) = 1
    /\ \E r \in clip(results[1].clamped_action, context, bounds) :
          results' = Append(results, r)
    /\ UNCHANGED <<bounds, proposed, context>>
    /\ UNCHANGED beyondCaller

\* The next test case: a fresh Action, the results of the last one dropped.
NewAction ==
    /\ results # <<>>
    /\ proposed' = <<>>
    /\ results' = <<>>
    /\ UNCHANGED <<bounds, context>>
    /\ UNCHANGED beyondCaller

Next ==
    \/ PushBounds
    \/ PushDefaultBounds
    \/ PushValue
    \/ SetContext
    \/ Clip
    \/ ClipAgain
    \/ NewAction

Spec == Init /\ [][Next]_vars

TypeOK ==
    /\ Len(bounds) <= MaxDim
    /\ \A i \in 1..Len(bounds) :
          \A f \in {"lower_hard", "upper_hard", "lower_soft", "upper_soft"} :
             bounds[i][f] \in Doubles
    /\ proposed \in SeqUpTo(Doubles, MaxDim)
    /\ context \in Contexts
    /\ Len(results) <= 2

(***************************************************************************)
(* Properties of clip.                                                     *)
(***************************************************************************)
\* The first call has returned and the action had as many values as the
\* bounds.
Matched == results # <<>> /\ Len(proposed) = Len(bounds)

\* The first call has returned and the two lengths differed.
Mismatched == results # <<>> /\ Len(proposed) # Len(bounds)

\* C1: for every call with len(proposed) = len(bounds) and every dimension i
\* whose proposed value is finite, the clamped value lies in
\* [bounds[i].lower_hard, bounds[i].upper_hard].
C1_Boundedness ==
    Matched =>
        \A i \in 1..Len(proposed) :
            isfinite(proposed[i]) =>
                /\ Le(bounds[i].lower_hard, results[1].clamped_action[i])
                /\ Le(results[1].clamped_action[i], bounds[i].upper_hard)

\* C2: when the dimensions match, a non-finite proposed value (NaN, +inf,
\* -inf) gives a record of kind InvariantBreach whose clipped value and
\* clamped entry are 0.0, and is_safe is false for the whole result.
C2_FailSafe ==
    Matched =>
        \A i \in 1..Len(proposed) :
            ~isfinite(proposed[i]) =>
                /\ results[1].stats[i].violation = "InvariantBreach"
                /\ results[1].stats[i].clipped_value = Zero
                /\ results[1].clamped_action[i] = Zero
                /\ results[1].is_safe = FALSE

\* C2 witness: an infinite value met a finite, non-zero hard bound it
\* exceeds, and the call returned.
C2_Witness ==
    /\ Matched
    /\ \E i \in 1..Len(proposed) :
          /\ proposed[i] = PosInf
          /\ bounds[i].upper_hard = Fin(1)

\* C3: in every result of clip, is_safe is false if and only if at least one
\* record of stats has violation InvariantBreach.
C3_IsSafeIffNoBreach ==
    \A k \in 1..Len(results) :
        (results[k].is_safe = FALSE) <=>
            (\E j \in 1..Len(results[k].stats) :
                results[k].stats[j].violation = "InvariantBreach")

\* C3 witness: an unsafe result with a non-finite value among finite ones,
\* and the safe result of clipping its clamped action again.
C3_Witness ==
    /\ Matched
    /\ Len(results) = 2
    /\ results[1].is_safe = FALSE
    /\ results[2].is_safe = TRUE
    /\ \E i \in 1..Len(proposed) : results[1].stats[i].violation = "HardLimit"

\* C4: when len(proposed) differs from len(bounds), clip returns
\* is_safe = false, a clamped action of len(bounds) zeros and exactly one
\* record, of kind InvariantBreach, with the dimension-mismatch message.
C4_DimensionMismatch ==
    Mismatched =>
        /\ results[1].is_safe = FALSE
        /\ Len(results[1].clamped_action) = Len(bounds)
        /\ \A i \in 1..Len(bounds) : results[1].clamped_action[i] = Zero
        /\ Len(results[1].stats) = 1
        /\ results[1].stats[1].violation = "InvariantBreach"
        /\ results[1].stats[1].message =
              "Dimension mismatch between action and bounds"

\* C4 witness: a mismatched call whose action holds a non-finite value and a
\* value beyond the hard bound of its dimension.
C4_Witness ==
    /\ Mismatched
    /\ Len(bounds) = 1
    /\ Len(proposed) = 2
    /\ Gt(proposed[1], bounds[1].upper_hard)
    /\ proposed[2] = NaN

\* C5: a record can have kind SoftLimit only if
\* lower_hard <= value <= upper_hard.
C5_HardPrecedence ==
    Matched =>
        \A i \in 1..Len(proposed) :
            results[1].stats[i].violation = "SoftLimit" =>
                /\ Le(bounds[i].lower_hard, proposed[i])
                /\ Le(proposed[i], bounds[i].upper_hard)

\* C6: in every per-dimension record whose kind is SoftLimit or None,
\* clipped_value equals original_value and the clamped entry equals the
\* proposed entry.
C6_SoftNeverAlters ==
    Matched =>
        \A i \in 1..Len(proposed) :
            results[1].stats[i].violation \in {"SoftLimit", "None"} =>
                /\ results[1].stats[i].clipped_value =
                      results[1].stats[i].original_value
                /\ results[1].clamped_action[i] = proposed[i]

\* C6 witness: a value above the upper soft bound was flagged SoftLimit.
C6_Witness ==
    /\ Matched
    /\ \E i \in 1..Len(proposed) :
          /\ results[1].stats[i].violation = "SoftLimit"
          /\ Gt(proposed[i], bounds[i].upper_soft)

\* The record the case list of C7 gives to value v under bound b.
C7_Expected(v, b) ==
    CASE ~isfinite(v) -> <<"InvariantBreach", Zero, TRUE>>
      [] isfinite(v) /\ Gt(v, b.upper_hard) -> <<"HardLimit", b.upper_hard, TRUE>>
      [] isfinite(v) /\ ~Gt(v, b.upper_hard) /\ Lt(v, b.lower_hard) ->
            <<"HardLimit", b.lower_hard, TRUE>>
      [] isfinite(v) /\ ~Gt(v, b.upper_hard) /\ ~Lt(v, b.lower_hard)
            /\ Gt(v, b.upper_soft) -> <<"SoftLimit", v, FALSE>>
      [] isfinite(v) /\ ~Gt(v, b.upper_hard) /\ ~Lt(v, b.lower_hard)
            /\ ~Gt(v, b.upper_soft) /\ Lt(v, b.lower_soft) ->
            <<"SoftLimit", v, FALSE>>
      [] OTHER -> <<"None", v, FALSE>>

\* C7: when the dimensions match, the record of each dimension is the first
\* matching case of: non-finite -> (InvariantBreach, 0.0, true);
\* v > upper_hard -> (HardLimit, upper_hard, true); v < lower_hard ->
\* (HardLimit, lower_hard, true); v > upper_soft -> (SoftLimit, v, false);
\* v < lower_soft -> (SoftLimit, v, false); otherwise (None, v, false). A
\* value equal to all four bounds is not flagged.
C7_CaseTable ==
    Matched =>
        \A i \in 1..Len(proposed) :
            /\ <<results[1].stats[i].violation,
                 results[1].stats[i].clipped_value,
                 results[1].stats[i].was_modified>> =
                    C7_Expected(proposed[i], bounds[i])
            /\ (/\ proposed[i] = bounds[i].upper_hard
                /\ proposed[i] = bounds[i].lower_hard
                /\ proposed[i] = bounds[i].upper_soft
                /\ proposed[i] = bounds[i].lower_soft
                /\ isfinite(proposed[i]))
               => results[1].stats[i].violation = "None"

\* C7 witness: one call with a value equal to its four bounds next to a
\* value clamped to a hard bound.
C7_Witness ==
    /\ Matched
    /\ Len(proposed) = 2
    /\ bounds[1] = SafetyBounds(Fin(1), Fin(1), Fin(1), Fin(1))
    /\ proposed[1] = Fin(1)
    /\ results[1].stats[2].violation = "HardLimit"

\* C8: clipping the clamped action returned by clip again with the same
\* bounds yields the same clamped action, with was_modified = false in every
\* record.
C8_Idempotence ==
    Len(results) = 2 =>
        /\ results[2].clamped_action = results[1].clamped_action
        /\ \A j \in 1..Len(results[2].stats) :
              results[2].stats[j].was_modified = FALSE

\* C9: clip returns a result for every input (NaN or infinite values,
\* mismatched lengths, an empty action, empty bounds), and the clamped action
\* of every result has exactly len(bounds) entries.
C9_Total ==
    /\ results = <<>> => ENABLED Clip
    /\ Len(results) = 1 => ENABLED ClipAgain
    /\ \A k \in 1..Len(results) :
          /\ Len(results[k].clamped_action) = Len(bounds)
          /\ results[k].is_safe \in BOOLEAN
          /\ \A j \in 1..Len(results[k].stats) :
                results[k].stats[j].violation \in ViolationType

\* C9 witness: clip returned for an empty action against non-empty bounds.
C9_Witness ==
    /\ results # <<>>
    /\ proposed = <<>>
    /\ bounds # <<>>

\* C10: when the dimensions match, stats holds one record per dimension in
\* input order: stats[i].original_value is proposed[i] and clamped_action[i]
\* is stats[i].clipped_value.
C10_RecordsInOrder ==
    Matched =>
        /\ Len(results[1].stats) = Len(proposed)
        /\ Len(results[1].clamped_action) = Len(proposed)
        /\ \A i \in 1..Len(proposed) :
              /\ results[1].stats[i].original_value = proposed[i]
              /\ results[1].clamped_action[i] = results[1].stats[i].clipped_value

\* C10 witness: two dimensions with different values and different clipped
\* values, so that an exchange of the records would show.
C10_Witness ==
    /\ Matched
    /\ Len(proposed) = 2
    /\ proposed[1] # proposed[2]
    /\ results[1].stats[1].clipped_value # results[1].stats[2].clipped_value
    /\ results[1].stats[1].was_modified

\* C11: whenever the dimensions match and every proposed value is finite,
\* is_safe is true, however many values were clamped or flagged.
C11_LimitsAreSafe ==
    (Matched /\ \A i \in 1..Len(proposed) : isfinite(proposed[i])) =>
        /\ results[1].is_safe = TRUE
        /\ \A i \in 1..Len(proposed) :
              results[1].stats[i].violation \in {"HardLimit", "SoftLimit", "None"}

\* C11 witness: a safe result with one value clamped to a hard bound and one
\* value flagged by a soft bound.
C11_Witness ==
    /\ Matched
    /\ Len(proposed) = 2
    /\ results[1].is_safe = TRUE
    /\ \E i, j \in 1..2 :
          /\ results[1].stats[i].violation = "HardLimit"
          /\ results[1].stats[j].violation = "SoftLimit"

\* C12: every value of the action returned by clip lies within
\* [lower_hard, upper_hard] of its dimension, for every input, the values
\* neutralized to 0.0 included.
C12_ReturnedInsideEnvelope ==
    \A k \in 1..Len(results) :
        \A i \in 1..Len(results[k].clamped_action) :
            i <= Len(bounds) =>
                /\ Le(bounds[i].lower_hard, results[k].clamped_action[i])
                /\ Le(results[k].clamped_action[i], bounds[i].upper_hard)

\* C13: a SafetyBounds whose values violate
\* lower_hard <= lower_soft <= upper_soft <= upper_hard is reported at
\* construction and not accepted: no such bounds are held by a caller.
C13_OrderingEnforced ==
    \A i \in 1..Len(bounds) :
        /\ Le(bounds[i].lower_hard, bounds[i].lower_soft)
        /\ Le(bounds[i].lower_soft, bounds[i].upper_soft)
        /\ Le(bounds[i].upper_soft, bounds[i].upper_hard)

\* operator!= on doubles: true as soon as one operand is NaN.
Neq(a, b) == a.cls = "nan" \/ b.cls = "nan" \/ a # b

\* The bounds a dimension can have.
BoundsShapes ==
    {SafetyBounds(a[1], a[2], a[3], a[4]) : a \in BoundsArgs}
        \cup {DefaultSafetyBounds}

\* C15: when the dimensions match, the record and the clamped value of
\* dimension i depend only on proposed[i] and bounds[i]: giving any other
\* dimension j another value (NaN included) and other bounds leaves them
\* unchanged.
C15_DimensionsIndependent ==
    Matched =>
        \A i, j \in 1..Len(proposed) :
            i # j =>
                \A v \in Doubles, b \in BoundsShapes :
                    \A r \in clip([proposed EXCEPT ![j] = v], context,
                                  [bounds EXCEPT ![j] = b]) :
                        /\ r.stats[i] = results[1].stats[i]
                        /\ r.clamped_action[i] = results[1].clamped_action[i]

\* C15 witness: a value clamped to a hard bound next to a NaN.
C15_Witness ==
    /\ Matched
    /\ Len(proposed) = 2
    /\ proposed[2] = NaN
    /\ results[1].stats[1].violation = "HardLimit"
    /\ results[1].clamped_action[1] # Zero

\* C16: a call of clip leaves the proposed action, the context and the bounds
\* as they were before the call.
C16_InputsNotMutated ==
    [][Len(results') > Len(results) =>
          /\ bounds' = bounds
          /\ proposed' = proposed
          /\ context' = context]_vars

\* C16 witness: clip returned a clamped action that differs from the
\* proposed action, which the caller still holds.
C16_Witness ==
    /\ Matched
    /\ \E i \in 1..Len(proposed) :
          /\ results[1].stats[i].was_modified
          /\ results[1].clamped_action[i] # proposed[i]

\* C18: in every per-dimension record, was_modified is true exactly when
\* clipped_value differs from original_value, which is exactly when the kind
\* is HardLimit or InvariantBreach.
C18_WasModifiedExact ==
    \A k \in 1..Len(results) :
        (k = 2 \/ Matched) =>
            \A i \in 1..Len(results[k].stats) :
                LET st == results[k].stats[i]
                IN  /\ st.was_modified <=> Neq(st.clipped_value, st.original_value)
                    /\ st.was_modified <=>
                          st.violation \in {"HardLimit", "InvariantBreach"}

\* C18 witness: a value below the lower hard bound was clamped to it.
C18_Witness ==
    /\ Matched
    /\ \E i \in 1..Len(proposed) :
          /\ results[1].stats[i].message = "Exceeded Lower Hard Limit"
          /\ results[1].stats[i].clipped_value = bounds[i].lower_hard

(***************************************************************************)
(* engine::WorldModel (src/engine/WorldModel.cpp).                         *)
(***************************************************************************)
\* Largest number of SpawnPlane calls after one LoadLevel.
MaxPlanes == 2

\* What the world never touches.
beyondWorld == <<clipVars, detVars, concVars, agentVars, qubeVars, battleVars, cityVars>>

TileType == {"Empty", "Platform", "Spikes", "Ladder", "BossGate"}

\* Tile{type, {{minx, miny}, {maxx, maxy}}}
Tile(type, minx, miny, maxx, maxy) ==
    [type |-> type,
     bounds |-> [min |-> Vector2(minx, miny), max |-> Vector2(maxx, maxy)]]

\* The tiles LoadLevel pushes after tiles_.clear(): the floor, the boss room
\* wall and the tiles of the level (level 0 only has some).
LevelTiles(levelId) ==
    <<Tile("Platform", -100, 10, 1000, 20),
      Tile("Platform", 500, -100, 520, 10)>>
    \o (IF levelId = 0
        THEN <<Tile("Platform", -400, 20, 400, 25),
               Tile("Platform", -200, 15, -100, 16),
               Tile("Platform", 100, 15, 200, 16)>>
        ELSE <<>>)

\* The spawn point LoadLevel leaves: level 0 assigns {0, 10}, then the last
\* statement assigns {0, 0} for every level.
LevelSpawnPoint(levelId, old) ==
    LET afterLevelSpecifics == IF levelId = 0 THEN Vector2(0, 10) ELSE old
    IN  Vector2(0, 0)

\* WorldModel::IsSolid
IsSolid(pos) ==
    \E k \in 1..Len(tiles_) :
        /\ tiles_[k].type = "Platform"
        /\ pos.x >= tiles_[k].bounds.min.x
        /\ pos.x <= tiles_[k].bounds.max.x
        /\ pos.y >= tiles_[k].bounds.min.y
        /\ pos.y <= tiles_[k].bounds.max.y

\* Level ids a caller loads: the hub, Wily Castle and a level without
\* specifics.
LevelIds == {0, 1, 2}

\* Arguments of SpawnPlane: origin, width, height.
PlaneOrigins == {Vector2(0, 0), Vector2(100, 48)}
PlaneWidths == {0, 100}
PlaneHeights == {2, -5}

\* LoadLevel without tiles_.clear().
LoadLevel_NoClear ==
    /\ \E levelId \in LevelIds :
          /\ currentLevel_' = levelId
          /\ tiles_' = tiles_ \o LevelTiles(levelId)
          /\ spawnPoint_' = LevelSpawnPoint(levelId, spawnPoint_)
          /\ worldCall' = [op |-> "LoadLevel", levelId |-> levelId]
    /\ cleared' = Len(tiles_)
    /\ loaded' = TRUE
    /\ planes' = 0
    /\ UNCHANGED beyondWorld

\* world.LoadLevel(levelId)
LoadLevel ==
    /\ \E levelId \in LevelIds :
          /\ currentLevel_' = levelId
          /\ tiles_' = LevelTiles(levelId)
          /\ spawnPoint_' = LevelSpawnPoint(levelId, spawnPoint_)
          /\ worldCall' = [op |-> "LoadLevel", levelId |-> levelId]
    /\ cleared' = Len(tiles_)
    /\ loaded' = TRUE
    /\ planes' = 0
    /\ UNCHANGED beyondWorld

\* SpawnPlane taking (width, height) as the tile's max corner.
SpawnPlane_MaxIsSize ==
    /\ planes < MaxPlanes
    /\ \E origin \in PlaneOrigins, width \in PlaneWidths, height \in PlaneHeights :
          /\ tiles_' = Append(tiles_, Tile("Platform", origin.x, origin.y,
                                           width, height))
          /\ worldCall' = [op |-> "SpawnPlane", origin |-> origin,
                                width |-> width, height |-> height]
    /\ planes' = planes + 1
    /\ UNCHANGED <<currentLevel_, spawnPoint_, loaded, cleared>>
    /\ UNCHANGED beyondWorld

\* world.SpawnPlane(origin, width, height)
SpawnPlane ==
    /\ planes < MaxPlanes
    /\ \E origin \in PlaneOrigins, width \in PlaneWidths, height \in PlaneHeights :
          /\ tiles_' = Append(tiles_, Tile("Platform", origin.x, origin.y,
                                           origin.x + width, origin.y + height))
          /\ worldCall' = [op |-> "SpawnPlane", origin |-> origin,
                                width |-> width, height |-> height]
    /\ planes' = planes + 1
    /\ UNCHANGED <<currentLevel_, spawnPoint_, loaded, cleared>>
    /\ UNCHANGED beyondWorld

WorldNext ==
    \/ LoadLevel
    \/ SpawnPlane

WorldSpec == Init /\ [][WorldNext]_vars

\* C19: LoadLevel does not reset the spawn point to (0, 0): after
\* LoadLevel(1) GetSpawnPoint() returns (-50, 40), and in general it returns
\* the spawn point the loaded level defines ((0, 10) for level 0).
C19_SpawnPointOfLevel ==
    /\ (loaded /\ currentLevel_ = 1) => spawnPoint_ = Vector2(-50, 40)
    /\ (loaded /\ currentLevel_ = 0) => spawnPoint_ = Vector2(0, 10)

\* C20: after LoadLevel(1) the world holds exactly 5 tiles, the point
\* (150, 49) inside the spikes region is solid and the point (150, 40) is
\* not.
C20_LevelOneTiles ==
    (loaded /\ currentLevel_ = 1 /\ planes = 0) =>
        /\ Len(tiles_) = 5
        /\ IsSolid(Vector2(150, 49))
        /\ ~IsSolid(Vector2(150, 40))

\* C21: after LoadLevel(n) the current level is n and the tile list is
\* exactly the tiles generated for level n (5 tiles for level 0, 2 for any
\* other level), whatever tiles an earlier level or SpawnPlane had left.
C21_LoadLevelReplacesTiles ==
    worldCall.op = "LoadLevel" =>
        /\ currentLevel_ = worldCall.levelId
        /\ tiles_ = LevelTiles(worldCall.levelId)
        /\ Len(tiles_) = (IF worldCall.levelId = 0 THEN 5 ELSE 2)

\* C21 witness: LoadLevel(1) has just discarded the tiles of level 0 and the
\* planes spawned on it.
C21_Witness ==
    /\ worldCall.op = "LoadLevel"
    /\ currentLevel_ = 1
    /\ cleared > 5

\* C25: a SpawnPlane call appends exactly one Platform tile with min =
\* origin and max = origin + (width, height), keeps every existing tile, the
\* current level and the spawn point, and after k calls following LoadLevel
\* the tile count is the level's count plus k.
C25_SpawnPlaneAppendsOne ==
    [][(worldCall'.op = "SpawnPlane" /\ planes' # planes) =>
          LET c == worldCall'
              t == tiles_'[Len(tiles_')]
          IN  /\ Len(tiles_') = Len(tiles_) + 1
              /\ SubSeq(tiles_', 1, Len(tiles_)) = tiles_
              /\ t.type = "Platform"
              /\ t.bounds.min = c.origin
              /\ t.bounds.max = Vector2(c.origin.x + c.width, c.origin.y + c.height)
              /\ currentLevel_' = currentLevel_
              /\ spawnPoint_' = spawnPoint_
              /\ loaded => Len(tiles_') =
                               (IF currentLevel_ = 0 THEN 5 ELSE 2) + planes']_vars

\* C25 witness: two planes spawned on a loaded level, the last one away from
\* the world's origin.
C25_Witness ==
    /\ loaded
    /\ planes = 2
    /\ worldCall.op = "SpawnPlane"
    /\ worldCall.origin # Vector2(0, 0)
    /\ worldCall.width # 0

(***************************************************************************)
(* Two calls of clip on the same action and bounds.                        *)
(***************************************************************************)
\* context.values = {...}, between the two calls
ChangeContext ==
    /\ Len(results) = 1
    /\ repeat = <<>>
    /\ \E vals \in Contexts \ {context} : context' = vals
    /\ UNCHANGED <<bounds, proposed, results, repeat>>
    /\ UNCHANGED <<concVars, engineVars>>

\* auto res2 = SafetyLayer::clip(act, context, bounds), the same action and
\* bounds as the first call
ClipSame ==
    /\ Len(results) = 1
    /\ repeat = <<>>
    /\ \E r \in clip(proposed, context, bounds) : repeat' = <<r>>
    /\ UNCHANGED clipVars
    /\ UNCHANGED <<concVars, engineVars>>

DetNext ==
    \/ PushBounds
    \/ PushDefaultBounds
    \/ PushValue
    \/ SetContext
    \/ Clip
    \/ ChangeContext
    \/ ClipSame

DetSpec == Init /\ [][DetNext]_vars

\* C14: two calls with the same proposed action and the same bounds return
\* identical results (clamped action, records, is_safe), whatever the two
\* contexts are.
C14_Deterministic ==
    repeat # <<>> => repeat[1] = results[1]

(***************************************************************************)
(* Concurrent callers of clip sharing the same read-only bounds. Each      *)
(* activation runs the statements of clip one at a time (one loop          *)
(* iteration per step) on its own local result.                            *)
(***************************************************************************)
\* Largest number of dimensions of the shared bounds and of the actions.
ConcDim == 2

\* Values and bounds the concurrent callers use.
ConcValues == {Zero, Fin(1), NaN}
ConcBoundsShapes ==
    {SafetyBounds(Zero, Zero, Zero, Zero), SafetyBounds(Fin(-1), Fin(1), Zero, Zero)}

\* The local result of every activation in one static object.
Slot_Static(c) == "c1"

\* The storage of the local variable result of caller c's activation: an
\* automatic variable, one per activation.
Slot(c) == c

\* std::vector<double>::resize(n) and resize(n, 0.0)
Resize(values, n) ==
    IF n <= Len(values)
    THEN SubSeq(values, 1, n)
    ELSE values \o [k \in 1..(n - Len(values)) |-> Zero]

\* bounds.push_back(...) by the owner of the bounds, before any call begins
ShareBounds ==
    /\ \A c \in Callers : callers[c].pc = "idle"
    /\ Len(bounds) < ConcDim
    /\ \E b \in ConcBoundsShapes : bounds' = Append(bounds, b)
    /\ UNCHANGED <<proposed, context, results>>
    /\ UNCHANGED <<detVars, concVars, engineVars>>

\* Caller c enters clip: ClipResult result; result.is_safe = true;
Call(c) ==
    /\ callers[c].pc = "idle"
    /\ \E act \in SeqUpTo(ConcValues, ConcDim) :
          callers' = [callers EXCEPT ![c] = [@ EXCEPT !.pc = "check", !.act = act]]
    /\ frames' = [frames EXCEPT ![Slot(c)] = FreshResult]
    /\ UNCHANGED <<clipVars, detVars, engineVars>>

\* The dimension check: the mismatch branch up to its return, or the resize
\* before the loop.
CheckDimensions(c) ==
    /\ callers[c].pc = "check"
    /\ IF Len(callers[c].act) # Len(bounds)
       THEN /\ \E g1 \in Indeterminate, g2 \in Indeterminate :
                 frames' = [frames EXCEPT ![Slot(c)] =
                     ClipResult(Resize(@.clamped_action, Len(bounds)),
                                Append(@.stats,
                                       ClipStats("InvariantBreach", g1, g2, TRUE,
                                           "Dimension mismatch between action and bounds")),
                                FALSE)]
            /\ callers' = [callers EXCEPT ![c].pc = "return"]
       ELSE /\ frames' = [frames EXCEPT ![Slot(c)].clamped_action =
                             Resize(@, Len(callers[c].act))]
            /\ callers' = [callers EXCEPT ![c] = [@ EXCEPT !.pc = "loop", !.i = 1]]
    /\ UNCHANGED <<clipVars, detVars, engineVars>>

\* One iteration of the loop.
LoopStep(c) ==
    /\ callers[c].pc = "loop"
    /\ callers[c].i <= Len(callers[c].act)
    /\ LET i == callers[c].i
           val == callers[c].act[i]
           stat == ClipDimension(val, bounds[i])
       IN  frames' = [frames EXCEPT ![Slot(c)] =
               ClipResult(IF i <= Len(@.clamped_action)
                          THEN [@.clamped_action EXCEPT ![i] = stat.clipped_value]
                          ELSE @.clamped_action,
                          Append(@.stats, stat),
                          IF isfinite(val) THEN @.is_safe ELSE FALSE)]
    /\ callers' = [callers EXCEPT ![c].i = @ + 1]
    /\ UNCHANGED <<clipVars, detVars, engineVars>>

\* return result;
Return(c) ==
    /\ \/ callers[c].pc = "return"
       \/ callers[c].pc = "loop" /\ callers[c].i > Len(callers[c].act)
    /\ callers' = [callers EXCEPT ![c] =
                      [@ EXCEPT !.pc = "done", !.ret = <<frames[Slot(c)]>>]]
    /\ UNCHANGED frames
    /\ UNCHANGED <<clipVars, detVars, engineVars>>

ConcNext ==
    \/ ShareBounds
    \/ \E c \in Callers : Call(c)
    \/ \E c \in Callers : CheckDimensions(c)
    \/ \E c \in Callers : LoopStep(c)
    \/ \E c \in Callers : Return(c)

ConcSpec == Init /\ [][ConcNext]_vars

\* C17: under every interleaving of concurrent calls sharing the bounds, each
\* call returns a result it returns when run alone.
C17_ConcurrentCallsAlone ==
    \A c \in Callers :
        callers[c].pc = "done" =>
            callers[c].ret[1] \in clip(callers[c].act, context, bounds)

\* C17 witness: one caller has returned a modified two-dimensional action
\* while the other caller, with another action, is in the middle of its loop.
C17_Witness ==
    \E c, d \in Callers :
        /\ callers[c].pc = "done"
        /\ Len(callers[c].act) = 2
        /\ Len(bounds) = 2
        /\ callers[c].ret[1].stats[2].violation = "HardLimit"
        /\ callers[d].pc = "loop"
        /\ callers[d].i = 2
        /\ callers[d].act # callers[c].act

(***************************************************************************)
(* The bosses: Boss::Update and BigBoss::Update.                           *)
(***************************************************************************)
\* What an Update of a boss never touches.
beyondAgents == <<clipVars, detVars, concVars, worldVars, qubeVars, battleVars, cityVars>>

\* std::abs
Abs(x) == IF x < 0 THEN -x ELSE x

\* Arguments of Update: dt (0.5, 1.0 and 3.0 seconds) and the target.
UpdateDts == {Unit \div 2, Unit, 3 * Unit}
UpdateTargets == {Vector2(10 * Unit, 0), Vector2(0, 0), Vector2(-3 * Unit, Unit)}

\* Boss::Update moving always, without the test on the distance.
BossStep_NoDeadband(b, dt, target) ==
    LET dir == target.x - b.position_.x
    IN  [b EXCEPT !.position_.x = @ + (IF dir > 0 THEN 1 ELSE -1) * dt]

\* Boss::Update(dt, target): the boss after the call.
BossStep(b, dt, target) ==
    LET dir == target.x - b.position_.x
    IN  IF Abs(dir) > Unit
        THEN [b EXCEPT !.position_.x = @ + (IF dir > 0 THEN 1 ELSE -1) * dt]
        ELSE b

\* b.Update(dt, target) on the Boss
BossUpdate ==
    /\ \E dt \in UpdateDts, target \in UpdateTargets :
          /\ boss' = BossStep(boss, dt, target)
          /\ bossCall' = [op |-> "Boss::Update", dt |-> dt, target |-> target]
    /\ UNCHANGED bigBoss
    /\ UNCHANGED beyondAgents

BossNext == BossUpdate

BossSpec == Init /\ [][BossNext]_vars

\* BigBoss::Update that never resets the rage timer.
BigBossStep_NoReset(b, dt, target) ==
    LET timer == b.rageTimer_ + dt
        twiceSpeed == IF timer > 5 * Unit THEN 4 ELSE 1
        dir == target.x - b.position_.x
    IN  [b EXCEPT !.rageTimer_ = timer,
                  !.position_.x =
                      IF Abs(dir) > Unit
                      THEN @ + (IF dir > 0 THEN 1 ELSE -1) * ((twiceSpeed * dt) \div 2)
                      ELSE @]

\* BigBoss::Update(dt, target): the boss after the call. The speed is 0.5 or
\* 2.0, held here as twice its value.
BigBossStep(b, dt, target) ==
    LET timer == b.rageTimer_ + dt
        twiceSpeed == IF timer > 5 * Unit THEN 4 ELSE 1
        dir == target.x - b.position_.x
    IN  [b EXCEPT !.rageTimer_ = IF timer > 5 * Unit /\ timer > 8 * Unit THEN 0 ELSE timer,
                  !.position_.x =
                      IF Abs(dir) > Unit
                      THEN @ + (IF dir > 0 THEN 1 ELSE -1) * ((twiceSpeed * dt) \div 2)
                      ELSE @]

\* bb.Update(dt, target) on the BigBoss
BigBossUpdate ==
    /\ \E dt \in UpdateDts, target \in UpdateTargets :
          /\ bigBoss' = BigBossStep(bigBoss, dt, target)
          /\ bossCall' = [op |-> "BigBoss::Update", dt |-> dt, target |-> target]
    /\ UNCHANGED boss
    /\ UNCHANGED beyondAgents

BigBossNext == BigBossUpdate

BigBossSpec == Init /\ [][BigBossNext]_vars

C23_BossMovesByDt ==
    [][bossCall'.op = "Boss::Update" =>
          LET dt == bossCall'.dt
              dir == bossCall'.target.x - boss.position_.x
          IN  /\ (dir > Unit) => boss'.position_.x = boss.position_.x + dt
              /\ (dir < -Unit) => boss'.position_.x = boss.position_.x - dt
              /\ (dir >= -Unit /\ dir <= Unit) => boss'.position_.x = boss.position_.x
              /\ boss'.position_.y = boss.position_.y]_vars

\* C23 witness: the boss has moved and an update found it within 1 of its
\* target.
C23_Witness ==
    /\ bossCall.op = "Boss::Update"
    /\ boss.position_.x # 0
    /\ Abs(bossCall.target.x - boss.position_.x) <= Unit

(***************************************************************************)
(* The Qube runtime.                                                       *)
(***************************************************************************)
\* What a call on the runtime never touches.
beyondQube == <<clipVars, detVars, concVars, worldVars, agentVars, battleVars, cityVars>>

\* Largest length of the audit log.
MaxLog == 3

\* Number of values of std::hash<std::string>.
HashSpace == 6

\* The strings the callers use, other than decimal numbers.
KnownStrings ==
    <<"GENESIS_HASH", "JURASSIC_GENESIS_HUB", "SHA256:INITIAL_CONFIG_HASH",
      "PATTERN_CLUST_SOAK_01", "PIXEL_HASH", "">>

\* A number standing for the text of a string written with operator<<: a
\* string the callers use or the decimal string of a hash. An integer written
\* with operator<< stands for itself.
StrCode(str) ==
    IF \E k \in 1..Len(KnownStrings) : KnownStrings[k] = str
    THEN CHOOSE k \in 1..Len(KnownStrings) : KnownStrings[k] = str
    ELSE Len(KnownStrings) + 1
             + (CHOOSE n \in 0..(HashSpace - 1) : ToString(n) = str)

\* std::hash<std::string>{}(ss.str()) of the parts streamed into ss: a
\* function of the text alone, with collisions.
RECURSIVE StdHash(_)
StdHash(parts) ==
    IF parts = <<>>
    THEN 1
    ELSE (StdHash(SubSeq(parts, 1, Len(parts) - 1)) * 5
              + parts[Len(parts)]) % HashSpace

\* struct TokenPixel (timestamp and payload are only printed)
TokenPixel(sequence_id, previous_hash, current_hash) ==
    [sequence_id |-> sequence_id, previous_hash |-> previous_hash,
     current_hash |-> current_hash]

\* QubeRuntime::UpdateHash: the new state hash
UpdateHash(hash, pixel) ==
    ToString(StdHash(<<StrCode(hash), pixel.sequence_id, StrCode(pixel.current_hash)>>))

\* struct SyntheticStructure
SyntheticStructure(x, y, w, h, type) ==
    [x |-> x, y |-> y, w |-> w, h |-> h, type |-> type]

\* ReorganizeAndSynthesize with count = seed % 3.
Synthesize_NoPlusOne(hash) ==
    LET seed == StdHash(<<StrCode(hash)>>)
        count == seed % 3
    IN  [k \in 1..count |->
            SyntheticStructure((seed % 400) - 200 + ((k - 1) * 50), (seed % 20) + 5,
                               50 + (seed % 100), 10, "SyntheticPlatform")]

\* The structures ReorganizeAndSynthesize returns for a state hash; the loop
\* index i is k - 1.
Synthesize(hash) ==
    LET seed == StdHash(<<StrCode(hash)>>)
        count == (seed % 3) + 1
    IN  [k \in 1..count |->
            SyntheticStructure((seed % 400) - 200 + ((k - 1) * 50), (seed % 20) + 5,
                               50 + (seed % 100), 10, "SyntheticPlatform")]

\* Arguments of the calls.
ConfigHashes == {"JURASSIC_GENESIS_HUB", "SHA256:INITIAL_CONFIG_HASH"}
SequenceIds == {1, 2}
PatternSizes == {0, 6}

\* Initialize overwriting the state of an initialized runtime.
Initialize_Always ==
    /\ \E configHash \in ConfigHashes :
          /\ qubeCall' = [op |-> "Initialize", configHash |-> configHash]
          /\ currentStateHash_' = configHash
          /\ isInitialized_' = TRUE
    /\ UNCHANGED <<operationsCount_, auditLog_>>
    /\ UNCHANGED beyondQube

\* runtime.Initialize(configHash)
Initialize ==
    /\ \E configHash \in ConfigHashes :
          /\ qubeCall' = [op |-> "Initialize", configHash |-> configHash]
          /\ IF isInitialized_
             THEN UNCHANGED <<currentStateHash_, isInitialized_>>
             ELSE /\ currentStateHash_' = configHash
                  /\ isInitialized_' = TRUE
    /\ UNCHANGED <<operationsCount_, auditLog_>>
    /\ UNCHANGED beyondQube

\* Execute without the hash anchoring test.
Execute_NoAnchor ==
    /\ Len(auditLog_) < MaxLog
    /\ \E seq \in SequenceIds, prev \in {currentStateHash_, "GENESIS_HASH", "PIXEL_HASH"} :
          LET pixel == TokenPixel(seq, prev, "PIXEL_HASH")
          IN  IF ~isInitialized_
              THEN /\ qubeCall' = [op |-> "Execute", pixel |-> pixel, ret |-> FALSE]
                   /\ UNCHANGED <<currentStateHash_, operationsCount_, auditLog_>>
              ELSE /\ qubeCall' = [op |-> "Execute", pixel |-> pixel, ret |-> TRUE]
                   /\ currentStateHash_' = UpdateHash(currentStateHash_, pixel)
                   /\ operationsCount_' = operationsCount_ + 1
                   /\ auditLog_' = Append(auditLog_, currentStateHash_')
    /\ UNCHANGED isInitialized_
    /\ UNCHANGED beyondQube

\* runtime.Execute(pixel)
Execute ==
    /\ Len(auditLog_) < MaxLog
    /\ \E seq \in SequenceIds, prev \in {currentStateHash_, "GENESIS_HASH", "PIXEL_HASH"} :
          LET pixel == TokenPixel(seq, prev, "PIXEL_HASH")
          IN  IF ~isInitialized_ \/ pixel.previous_hash # currentStateHash_
              THEN /\ qubeCall' = [op |-> "Execute", pixel |-> pixel, ret |-> FALSE]
                   /\ UNCHANGED <<currentStateHash_, operationsCount_, auditLog_>>
              ELSE /\ qubeCall' = [op |-> "Execute", pixel |-> pixel, ret |-> TRUE]
                   /\ currentStateHash_' = UpdateHash(currentStateHash_, pixel)
                   /\ operationsCount_' = operationsCount_ + 1
                   /\ auditLog_' = Append(auditLog_, currentStateHash_')
    /\ UNCHANGED isInitialized_
    /\ UNCHANGED beyondQube

\* runtime.DockPattern(patternId, data)
DockPattern ==
    /\ Len(auditLog_) < MaxLog
    /\ \E size \in PatternSizes :
          /\ qubeCall' = [op |-> "DockPattern", size |-> size]
          /\ currentStateHash_' =
                 ToString(StdHash(<<StrCode(currentStateHash_),
                                     StrCode("PATTERN_CLUST_SOAK_01"), size>>))
    /\ auditLog_' = Append(auditLog_, currentStateHash_')
    /\ UNCHANGED <<isInitialized_, operationsCount_>>
    /\ UNCHANGED beyondQube

\* auto structures = runtime.ReorganizeAndSynthesize()
ReorganizeAndSynthesize ==
    /\ qubeCall' = [op |-> "ReorganizeAndSynthesize",
                    ret |-> Synthesize(currentStateHash_)]
    /\ UNCHANGED <<currentStateHash_, isInitialized_, operationsCount_, auditLog_>>
    /\ UNCHANGED beyondQube

\* runtime.Shutdown()
Shutdown ==
    /\ qubeCall' = [op |-> "Shutdown"]
    /\ isInitialized_' = FALSE
    /\ UNCHANGED <<currentStateHash_, operationsCount_, auditLog_>>
    /\ UNCHANGED beyondQube

QubeNext ==
    \/ Initialize
    \/ Execute
    \/ DockPattern
    \/ ReorganizeAndSynthesize
    \/ Shutdown

QubeSpec == Init /\ [][QubeNext]_vars

\* C24: ReorganizeAndSynthesize returns between 1 and 3 structures, leaves
\* the state hash, the audit log and the rest of the runtime unchanged, and a
\* call that directly follows another one returns the same structures.
C24_SynthesizeFromHash ==
    [][qubeCall'.op = "ReorganizeAndSynthesize" =>
          /\ Len(qubeCall'.ret) \in 1..3
          /\ currentStateHash_' = currentStateHash_
          /\ auditLog_' = auditLog_
          /\ operationsCount_' = operationsCount_
          /\ isInitialized_' = isInitialized_
          /\ qubeCall.op = "ReorganizeAndSynthesize" => qubeCall'.ret = qubeCall.ret]_vars

\* C24 witness: three structures synthesized after a pattern was docked.
C24_Witness ==
    /\ qubeCall.op = "ReorganizeAndSynthesize"
    /\ Len(qubeCall.ret) = 3
    /\ auditLog_ # <<>>

\* C26: Execute returns true exactly when the runtime is initialized and
\* pixel.previous_hash equals the current state hash; when it returns false
\* the state hash, the operation count and the audit log are unchanged; when
\* it returns true the operation count grows by 1 and the new state hash is
\* appended to the audit log.
C26_ExecuteHashChain ==
    [][qubeCall'.op = "Execute" =>
          LET anchored == isInitialized_
                              /\ qubeCall'.pixel.previous_hash = currentStateHash_
          IN  /\ qubeCall'.ret = anchored
              /\ ~anchored =>
                     /\ currentStateHash_' = currentStateHash_
                     /\ operationsCount_' = operationsCount_
                     /\ auditLog_' = auditLog_
              /\ anchored =>
                     /\ operationsCount_' = operationsCount_ + 1
                     /\ auditLog_' = Append(auditLog_, currentStateHash_')]_vars

\* C26 witness: a second pixel chained on the first has been accepted.
C26_Witness ==
    /\ qubeCall.op = "Execute"
    /\ qubeCall.ret
    /\ operationsCount_ = 2

\* C27: Initialize on an initialized runtime changes nothing; on a runtime
\* that is not initialized (after construction or after Shutdown) it sets the
\* state hash to the configuration hash.
C27_InitializeOnce ==
    [][qubeCall'.op = "Initialize" =>
          /\ isInitialized_ =>
                 /\ currentStateHash_' = currentStateHash_
                 /\ operationsCount_' = operationsCount_
                 /\ auditLog_' = auditLog_
          /\ ~isInitialized_ => currentStateHash_' = qubeCall'.configHash
          /\ isInitialized_']_vars

\* C27 witness: Initialize was called on a runtime whose state hash Execute
\* had advanced, and the hash is still the advanced one.
C27_Witness ==
    /\ qubeCall.op = "Initialize"
    /\ isInitialized_
    /\ operationsCount_ > 0
    /\ currentStateHash_ \notin ConfigHashes
    /\ currentStateHash_ = auditLog_[Len(auditLog_)]

(***************************************************************************)
(* The battle system.                                                      *)
(***************************************************************************)
\* What a call on the battle system never touches.
beyondBattle == <<clipVars, detVars, concVars, worldVars, agentVars, qubeVars, cityVars>>

\* Monsters a battle is started with: positive hp, non-negative attack.
PlayerMonsters ==
    {Monster("Pikachu", "Fire", 3, 3, 2), Monster("Bulbasaur", "Grass", 1, 1, 0)}
EnemyMonsters ==
    {Monster("Charizard", "Fire", 5, 5, 2), Monster("Squirtle", "Water", 2, 2, 1)}

\* dt of Update: 0.5 and 1.0 seconds.
BattleDts == {Unit \div 2, Unit}

\* EnemyTurn writing the hp as computed.
EnemyTurn_NoClamp(player, enemy) ==
    LET damage == enemy.attack
        hp == player.hp - damage
        log == enemy.name \o " used Scratch! " \o ToString(damage) \o " damage."
    IN  [player |-> [player EXCEPT !.hp = hp],
         active |-> hp > 0,
         log |-> IF hp <= 0 THEN log \o " You blacked out!" ELSE log]

\* BattleSystem::EnemyTurn: the player monster, active_ and battleLog_ after
\* the enemy's move.
EnemyTurn(player, enemy) ==
    LET damage == enemy.attack
        hp == player.hp - damage
        log == enemy.name \o " used Scratch! " \o ToString(damage) \o " damage."
    IN  [player |-> [player EXCEPT !.hp = IF hp <= 0 THEN 0 ELSE hp],
         active |-> hp > 0,
         log |-> IF hp <= 0 THEN log \o " You blacked out!" ELSE log]

\* battle.StartBattle(playerMonster, enemyMonster)
StartBattle ==
    /\ \E player \in PlayerMonsters, enemy \in EnemyMonsters :
          /\ playerMonster_' = player
          /\ enemyMonster_' = enemy
          /\ battleLog_' = "A wild " \o enemy.name \o " appeared!"
    /\ active_' = TRUE
    /\ playerTurn_' = TRUE
    /\ battleCall' = [op |-> "StartBattle"]
    /\ UNCHANGED <<turnTimer_, sinceAttack>>
    /\ UNCHANGED beyondBattle

\* battle.Update(dt)
BattleUpdate ==
    /\ \E dt \in BattleDts :
          IF ~active_ \/ playerTurn_
          THEN /\ battleCall' = [op |-> "Update", dt |-> dt, enemyTurn |-> FALSE]
               /\ UNCHANGED <<active_, playerMonster_, battleLog_, turnTimer_,
                              playerTurn_, sinceAttack>>
          ELSE /\ sinceAttack' = sinceAttack + dt
               /\ IF turnTimer_ + dt > (3 * Unit) \div 2
                  THEN LET after == EnemyTurn(playerMonster_, enemyMonster_)
                       IN  /\ playerMonster_' = after.player
                           /\ active_' = after.active
                           /\ battleLog_' = after.log
                           /\ turnTimer_' = 0
                           /\ playerTurn_' = TRUE
                           /\ battleCall' = [op |-> "Update", dt |-> dt,
                                             enemyTurn |-> TRUE]
                  ELSE /\ turnTimer_' = turnTimer_ + dt
                       /\ battleCall' = [op |-> "Update", dt |-> dt,
                                         enemyTurn |-> FALSE]
                       /\ UNCHANGED <<active_, playerMonster_, battleLog_, playerTurn_>>
    /\ UNCHANGED enemyMonster_
    /\ UNCHANGED beyondBattle

\* battle.Attack()
Attack ==
    /\ battleCall' = [op |-> "Attack"]
    /\ IF ~active_ \/ ~playerTurn_
       THEN UNCHANGED <<active_, enemyMonster_, battleLog_, playerTurn_, sinceAttack>>
       ELSE LET damage == playerMonster_.attack
                hp == enemyMonster_.hp - damage
                log == playerMonster_.name \o " used Tackle! " \o ToString(damage)
                           \o " damage."
            IN  /\ enemyMonster_' = [enemyMonster_ EXCEPT !.hp = IF hp <= 0 THEN 0 ELSE hp]
                /\ active_' = (hp > 0)
                /\ battleLog_' = (IF hp <= 0 THEN log \o " You won!" ELSE log)
                /\ playerTurn_' = (hp <= 0)
                /\ sinceAttack' = 0
    /\ UNCHANGED <<playerMonster_, turnTimer_>>
    /\ UNCHANGED beyondBattle

\* battle.Run()
Run ==
    /\ battleCall' = [op |-> "Run"]
    /\ IF ~active_
       THEN UNCHANGED <<active_, battleLog_>>
       ELSE /\ active_' = FALSE
            /\ battleLog_' = "Got away safely!"
    /\ UNCHANGED <<playerMonster_, enemyMonster_, turnTimer_, playerTurn_, sinceAttack>>
    /\ UNCHANGED beyondBattle

BattleNext ==
    \/ StartBattle
    \/ BattleUpdate
    \/ Attack
    \/ Run

BattleSpec == Init /\ [][BattleNext]_vars

\* C28: the enemy's turn is executed by an Update only once more than 1.5
\* seconds of Update time have accumulated since the player's attack, and the
\* turn then returns to the player, in every battle, also one started after
\* an earlier battle was ended by Run or by a knockout.
C28_EnemyWaits ==
    (battleCall.op = "Update" /\ battleCall.enemyTurn) =>
        /\ sinceAttack > (3 * Unit) \div 2
        /\ playerTurn_

\* StartBattle has assigned the monsters.
Started == "hp" \in DOMAIN playerMonster_

\* C29: once a battle has been started no hp is negative, the battle is
\* inactive whenever a monster's hp is 0, and a call of Attack, Run or Update
\* made while the battle is inactive (or of Attack while it is the enemy's
\* turn) changes no hp.
C29_HpNeverNegative ==
    [][(battleCall'.op # "none" /\ Started') =>
          /\ playerMonster_'.hp >= 0
          /\ enemyMonster_'.hp >= 0
          /\ (playerMonster_'.hp = 0 \/ enemyMonster_'.hp = 0) => ~active_'
          /\ (/\ battleCall'.op \in {"Attack", "Run", "Update"}
              /\ ~active_ \/ (battleCall'.op = "Attack" /\ ~playerTurn_)) =>
                 /\ playerMonster_' = playerMonster_
                 /\ enemyMonster_' = enemyMonster_]_vars

\* C29 witness: Attack was called after the player blacked out from a blow
\* larger than the hp left.
C29_Witness ==
    /\ battleCall.op = "Attack"
    /\ Started
    /\ ~active_
    /\ playerMonster_.hp = 0
    /\ playerMonster_.maxHp = 3
    /\ enemyMonster_.attack = 2

(***************************************************************************)
(* The city simulation.                                                    *)
(***************************************************************************)
\* What a call on the city never touches.
beyondCity == <<clipVars, detVars, concVars, worldVars, agentVars, qubeVars, battleVars>>

ZoneType == {"Empty", "Residential", "Commercial", "Industrial", "PowerPlant", "WaterPump"}

\* Power plants power 5 radius.
PowerRadius == 5

\* The density a Residential cell grows up to.
MaxDensity == 100

\* x >= 0 && x < width_ && y >= 0 && y < height_
InGrid(x, y) == x >= 0 /\ x < CityWidth /\ y >= 0 /\ y < CityHeight

\* CitySimulation::GetCell(x, y)
GetCell(x, y) == IF InGrid(x, y) THEN grid_[y * CityWidth + x] ELSE EmptyCell

\* CitySimulation::SimulateResources: the grid with the resources reset and
\* the power of each PowerPlant spread over its square.
SimulateResources(grid) ==
    [k \in DOMAIN grid |->
        LET x == k % CityWidth
            y == k \div CityWidth
        IN  [grid[k] EXCEPT
                !.hasWater = FALSE,
                !.hasPower =
                    \E py \in 0..(CityHeight - 1), px \in 0..(CityWidth - 1) :
                        /\ grid[py * CityWidth + px].type = "PowerPlant"
                        /\ x - px >= -PowerRadius /\ x - px <= PowerRadius
                        /\ y - py >= -PowerRadius /\ y - py <= PowerRadius]]

\* SimulateGrowth growing a powered cell without the test on its density.
SimulateGrowth_NoCap(grid) ==
    [k \in DOMAIN grid |->
        IF grid[k].type = "Residential"
        THEN IF grid[k].hasPower
             THEN [grid[k] EXCEPT !.density = @ + 1]
             ELSE IF ~grid[k].hasPower /\ grid[k].density > 0
                  THEN [grid[k] EXCEPT !.density = @ - 1]
                  ELSE grid[k]
        ELSE grid[k]]

\* CitySimulation::SimulateGrowth
SimulateGrowth(grid) ==
    [k \in DOMAIN grid |->
        IF grid[k].type = "Residential"
        THEN IF grid[k].hasPower /\ grid[k].density < MaxDensity
             THEN [grid[k] EXCEPT !.density = @ + 1]
             ELSE IF ~grid[k].hasPower /\ grid[k].density > 0
                  THEN [grid[k] EXCEPT !.density = @ - 1]
                  ELSE grid[k]
        ELSE grid[k]]

\* Arguments of SetZone: a power plant site, a cell next to it, a cell out of
\* its reach, and coordinates outside the grid.
ZoneCalls ==
    {<<0, 0, "PowerPlant">>, <<0, 0, "Empty">>,
     <<1, 0, "Residential">>, <<1, 0, "Commercial">>, <<1, 0, "Empty">>,
     <<6, 0, "Residential">>,
     <<-1, 0, "Residential">>, <<CityWidth, 0, "Residential">>,
     <<0, -1, "PowerPlant">>, <<0, CityHeight, "Residential">>}

\* dt of Update: 0.5 and 1.0 seconds.
CityDts == {Unit \div 2, Unit}

\* city.SetZone(x, y, type)
SetZone ==
    /\ \E call \in ZoneCalls :
          LET x == call[1]
              y == call[2]
              type == call[3]
          IN  /\ cityCall' = [op |-> "SetZone", x |-> x, y |-> y, type |-> type]
              /\ IF InGrid(x, y)
                 THEN grid_' = [grid_ EXCEPT ![y * CityWidth + x] =
                                   [@ EXCEPT !.type = type,
                                             !.density = IF type = "Empty" THEN 0 ELSE @]]
                 ELSE UNCHANGED grid_
    /\ UNCHANGED timer_
    /\ UNCHANGED beyondCity

\* city.Update(dt)
CityUpdate ==
    /\ \E dt \in CityDts :
          /\ cityCall' = [op |-> "Update", dt |-> dt, tick |-> timer_ + dt > Unit]
          /\ IF timer_ + dt > Unit
             THEN /\ timer_' = 0
                  /\ grid_' = SimulateGrowth(SimulateResources(grid_))
             ELSE /\ timer_' = timer_ + dt
                  /\ UNCHANGED grid_
    /\ UNCHANGED beyondCity

CityNext ==
    \/ SetZone
    \/ CityUpdate

CitySpec == Init /\ [][CityNext]_vars

\* C30: every cell's density stays within 0..100; at a simulation tick a
\* Residential cell with power gains 1 up to 100, a Residential cell without
\* power loses 1 down to 0, and no other cell's density changes; SetZone with
\* coordinates outside the grid changes nothing and GetCell outside the grid
\* returns an empty cell.
C30_DensityInRange ==
    [][cityCall'.op # "none" =>
          /\ \A k \in DOMAIN grid_' :
                 grid_'[k].density >= 0 /\ grid_'[k].density <= 100
          /\ (cityCall'.op = "Update" /\ cityCall'.tick) =>
                 \A k \in DOMAIN grid_ :
                     LET old == grid_[k].density
                         new == grid_'[k].density
                     IN  IF grid_[k].type = "Residential"
                         THEN IF grid_'[k].hasPower
                              THEN new = (IF old < 100 THEN old + 1 ELSE 100)
                              ELSE new = (IF old > 0 THEN old - 1 ELSE 0)
                         ELSE new = old
          /\ (cityCall'.op = "Update" /\ ~cityCall'.tick) => grid_' = grid_
          /\ (cityCall'.op = "SetZone" /\ ~InGrid(cityCall'.x, cityCall'.y)) =>
                 grid_' = grid_
          /\ \A call \in ZoneCalls :
                 ~InGrid(call[1], call[2]) =>
                     GetCell(call[1], call[2])' = CityCell("Empty", 0, FALSE, FALSE)]_vars

\* C30 witness: a tick found a powered Residential cell at density 100 and
\* left it there.
C30_Witness ==
    /\ cityCall.op = "Update"
    /\ cityCall.tick
    /\ grid_[1].type = "Residential"
    /\ grid_[1].hasPower
    /\ grid_[1].density = 100
    /\ timer_ = 0
====
